---- MODULE Spec2Model ----
(***************************************************************************)
(* Calendar-to-Notion synchronisation: CalendarSync (sync_to_notion.py)    *)
(* and the webhook trigger (webhook_server.py).                            *)
(*                                                                         *)
(* The MySQL event table and the Notion database are the environment; a    *)
(* reconciliation pass is a sequence of steps, one per call the code makes *)
(* to either of them.                                                      *)
(***************************************************************************)
EXTENDS Integers, Sequences, FiniteSets, TLC

\* ------------------------------------------------------------------ bounds
\* Event identifiers of the source, and those mirrored pages may carry ("Z":
\* an event that is no longer in the source).
Ids == {"A", "B"}
MirrorIds == Ids \cup {"Z"}
\* Number of pages the mirror holds before the first pass.
MaxInit == 2
\* page_size of databases.query (100 in the code), scaled down so that a
\* mirror of a few pages spans several result pages.
PageSize == 1
\* Number of passes run one after the other.
MaxRuns == 2

\* ---------------------------------------------------------------- values
\* Python's None / SQL NULL.
None == "None"
\* start_cursor = None: the first query carries no cursor.
NoCursor == 0
\* create_notion_page is given no page handle (handles start at 1).
NoPage == NoCursor
\* The process that runs passes one after the other.
MainProcs == {"p1"}
\* The web server process (one request at a time: the handler blocks).
WebProcs == {"p2"}
Procs == MainProcs \cup WebProcs

VARIABLES
    db_events,   \* rows of the events table (with their joins), one per event
    mirror,      \* the Notion database: sequence of pages, handle = position
    mirror0,     \* the mirror before the first pass (never changes)
    sync,        \* per process: the CalendarSync object and its pass
    history,     \* the passes that have ended, oldest first
    WEBHOOK_SECRET,  \* os.getenv("WEBHOOK_SECRET") of the web server
    http,        \* the request the webhook handler is serving, its response
    conns,       \* per process: the MySQL connection of its last invocation
    mapper       \* an event record and the property payloads built from it

vars == <<db_events, mirror, mirror0, sync, history, WEBHOOK_SECRET, http,
          conns, mapper>>

\* ------------------------------------------------------------- data shapes
\* The "Event ID" property of a page as databases.query returns it:
\*   present = FALSE      the page has no such property (.get gives {})
\*   is_rich = FALSE      the property is not of type rich_text
\*   rich_text            the text contents of its segments, in order
IdProperty(c) == [present |-> TRUE, is_rich |-> TRUE, rich_text |-> <<c>>]

Unreadable ==
    { [present |-> FALSE, is_rich |-> FALSE, rich_text |-> <<>>],
      [present |-> TRUE, is_rich |-> FALSE, rich_text |-> <<>>],
      [present |-> TRUE, is_rich |-> TRUE, rich_text |-> <<>>],
      IdProperty("") }

PropertyShapes == Unreadable \cup {IdProperty(i) : i \in MirrorIds}

PageShapes == [event_id_prop : PropertyShapes, archived : BOOLEAN]

\* One row of get_calendar_events' query (the fields reconciliation reads).
Rows ==
    [event_id : Ids, title : {"T"}, start_time : {None, "t1"},
     end_time : {None, "t2"}, calendar_name : {"Cal"}]

UniqueIds(S) == \A r1, r2 \in S : r1.event_id = r2.event_id => r1 = r2

\* ---------------------------------------------------------- Python helpers
\* `if event_id is not None:` instead: the empty string passes.
Truthy_NotNone(s) == s # None

\* Truth value of an optional string (`if event_id:`).
Truthy(s) == s # None /\ s # ""

\* dict as a sequence of [key, value] in insertion order.
DictHas(d, k) == \E i \in 1..Len(d) : d[i].key = k

DictIndex(d, k) == CHOOSE i \in 1..Len(d) : d[i].key = k

DictGet(d, k) == d[DictIndex(d, k)].value

DictSet(d, k, v) ==
    IF DictHas(d, k)
    THEN [d EXCEPT ![DictIndex(d, k)] = [key |-> k, value |-> v]]
    ELSE Append(d, [key |-> k, value |-> v])

DictDel(d, k) == SelectSeq(d, LAMBDA e : e.key # k)

DictKeys(d) == {d[i].key : i \in 1..Len(d)}

Min(a, b) == IF a < b THEN a ELSE b

\* --------------------------------------------------- the Notion database
\* Handles of the pages a query can return (archived pages are not
\* returned), from handle c on, in the database's order.
LiveFrom(m, c) ==
    SelectSeq([h \in 1..Len(m) |-> h], LAMBDA h : h >= c /\ ~m[h].archived)

\* notion.databases.query(database_id, start_cursor, page_size)
databases_query(m, cursor) ==
    LET live == LiveFrom(m, cursor)
        more == Len(live) > PageSize
    IN  [results |-> [i \in 1..Min(PageSize, Len(live)) |->
                         [id |-> live[i],
                          event_id_prop |-> m[live[i]].event_id_prop]],
         has_more |-> more,
         next_cursor |-> IF more THEN live[PageSize + 1] ELSE NoCursor]

\* notion.pages.update(page_id, properties): writes the properties given.
pages_update(m, page_id, properties) ==
    [m EXCEPT ![page_id].event_id_prop = properties.event_id_prop]

\* notion.pages.create(parent, properties): a new page, with a new handle.
pages_create(m, properties) ==
    Append(m, [event_id_prop |-> properties.event_id_prop, archived |-> FALSE])

\* notion.pages.update(page_id, archived=True)
pages_archive(m, page_id) == [m EXCEPT ![page_id].archived = TRUE]

\* ------------------------------------------------- correspondence fetcher
get_property_content(property_data) ==
    IF ~property_data.present \/ ~property_data.is_rich THEN None
    ELSE IF property_data.rich_text = <<>> THEN None
    ELSE property_data.rich_text[1]

\* The body of `for page in response["results"]` of get_notion_pages.
RECURSIVE AddResults(_, _)
AddResults(pages, results) ==
    IF results = <<>> THEN pages
    ELSE LET page == Head(results)
             event_id == get_property_content(page.event_id_prop)
         IN  AddResults(IF Truthy(event_id)
                        THEN DictSet(pages, event_id, page.id)
                        ELSE pages,
                        Tail(results))

\* --------------------------------------------------------- event fetcher
\* ORDER BY e.start_time DESC: MySQL puts NULL last in descending order;
\* rows with a start time come in any order (their times are arbitrary).
OrderedDesc(s) ==
    \A i, j \in 1..Len(s) :
        (i < j /\ s[i].start_time = None) => s[j].start_time = None

\* The dict get_calendar_events returns, as the rows in cursor order.
Orderings(S) ==
    { s \in [1..Cardinality(S) -> S] :
        (\A i, j \in 1..Cardinality(S) : i # j => s[i] # s[j]) /\ OrderedDesc(s) }

\* ------------------------------------------------------------ page mutator
\* event["start_time"].isoformat() / event["end_time"].isoformat() raise
\* AttributeError on None, before the try block is entered.
PropertiesRaise(event) == event.start_time = None \/ event.end_time = None

\* A payload whose "Event ID" has no text.
Properties_NoEventId(event) ==
    [event_id_prop |-> [present |-> TRUE, is_rich |-> TRUE, rich_text |-> <<>>]]

\* The properties dict create_notion_page and update_notion_page build.
Properties(event) == [event_id_prop |-> IdProperty(event.event_id)]

\* Each mutator, given the outcome of its store call (store_ok), yields
\*   raised   an exception leaves the method
\*   ret      the value returned (for create: <<handle>>, or <<>> for None)
\*   mirror   the Notion database afterwards
update_notion_page(m, page_id, event, store_ok) ==
    IF PropertiesRaise(event) THEN [raised |-> TRUE, ret |-> FALSE, mirror |-> m]
    ELSE IF store_ok
    THEN [raised |-> FALSE, ret |-> TRUE,
          mirror |-> pages_update(m, page_id, Properties(event))]
    ELSE [raised |-> FALSE, ret |-> FALSE, mirror |-> m]

\* A create whose payload lacks the identifier text.
create_notion_page_Unkeyed(m, event, store_ok) ==
    IF PropertiesRaise(event) THEN [raised |-> TRUE, ret |-> <<>>, mirror |-> m]
    ELSE IF store_ok
    THEN [raised |-> FALSE, ret |-> <<Len(m) + 1>>,
          mirror |-> pages_create(m, Properties_NoEventId(event))]
    ELSE [raised |-> FALSE, ret |-> <<>>, mirror |-> m]

create_notion_page(m, event, store_ok) ==
    IF PropertiesRaise(event) THEN [raised |-> TRUE, ret |-> <<>>, mirror |-> m]
    ELSE IF store_ok
    THEN [raised |-> FALSE, ret |-> <<Len(m) + 1>>,
          mirror |-> pages_create(m, Properties(event))]
    ELSE [raised |-> FALSE, ret |-> <<>>, mirror |-> m]

\* delete_notion_page returning True from its except branch too.
delete_notion_page_AlwaysTrue(m, page_id, store_ok) ==
    [raised |-> FALSE, ret |-> TRUE,
     mirror |-> IF store_ok THEN pages_archive(m, page_id) ELSE m]

delete_notion_page(m, page_id, store_ok) ==
    IF store_ok
    THEN [raised |-> FALSE, ret |-> TRUE, mirror |-> pages_archive(m, page_id)]
    ELSE [raised |-> FALSE, ret |-> FALSE, mirror |-> m]

\* ------------------------------------------------------------- the passes
\* A CalendarSync object between passes.
IdleSync ==
    [pc |-> "idle", exc |-> None, run |-> 0,
     mysql_events |-> <<>>, idx |-> 1,
     notion_pages |-> <<>>, aidx |-> 1, start_cursor |-> NoCursor,
     created |-> 0, updated |-> 0, deleted |-> 0, errors |-> 0,
     \* what follows is the record of the pass, not state of the code
     fetched |-> <<>>, queries |-> <<>>, calls |-> <<>>, printed |-> <<>>,
     start_mirror |-> <<>>]

Active(p) == sync[p].pc # "idle"

\* Where sync_all_events stands once event idx - 1 and leftover aidx - 1
\* are done: in the first loop, in the second, or at the summary.
LoopPc(events, idx, pages, aidx) ==
    IF idx <= Len(events) THEN "events_loop"
    ELSE IF aidx <= Len(pages) THEN "archive_loop"
    ELSE "summary"

\* `if event_id in notion_pages` (line 260)
Matched(pages, event_id) == DictHas(pages, event_id)

\* The entry left in the dict.
Consume_Forgotten(pages, event_id) == pages

\* `del notion_pages[event_id]` (line 267): the entry is consumed.
Consume(pages, event_id) == DictDel(pages, event_id)

\* The exception of a fetch swallowed: the pass goes on with what it has.
FetchRaised_Swallowed(me, where) ==
    [me EXCEPT !.exc = where, !.fetched = me.notion_pages,
               !.pc = LoopPc(me.mysql_events, 1, me.notion_pages, 1)]

\* An exception raised by a fetch is caught nowhere in get_calendar_events,
\* get_notion_pages or sync_all_events: it leaves the pass.
FetchRaised(me, where) == [me EXCEPT !.pc = "raised", !.exc = where]

\* The cursor never advanced.
NextCursor_Stale(response) == NoCursor

\* `start_cursor = response["next_cursor"]` (line 47)
NextCursor(response) == response.next_cursor

\* Passes begun so far: those that have ended and those under way.
Started == Len(history) + Cardinality({p \in Procs : Active(p)})

\* CalendarSync.__init__ (lines 12-26): mysql.connector.connect raises (no
\* connection is made), or a later line raises (Client(...), db.cursor())
\* with the connection open, or the object is built.
ConstructOutcomes == {"ok", "connect_raised", "raised_after_connect"}

CalendarSync(outcome) ==
    [raised |-> outcome # "ok",
     opened |-> IF outcome = "connect_raised" THEN 0 ELSE 1]

\* sync.close() (lines 289-292): cursor.close(), then db.close(); when
\* cursor.close() raises, db.close() is not reached.
close(cursor_close_ok) ==
    [raised |-> ~cursor_close_ok, closed |-> IF cursor_close_ok THEN 1 ELSE 0]

\* The connection of an entry point's invocation: how many were opened and
\* closed, whether the invocation is over, and what raised around the pass.
NoInvocation == [state |-> "none", opened |-> 0, closed |-> 0, raised |-> {}]

Constructed(c) ==
    [state |-> IF c.raised THEN "ended" ELSE "running",
     opened |-> c.opened, closed |-> 0,
     raised |-> IF c.raised THEN {"CalendarSync"} ELSE {}]

Closed(conn, c) ==
    [conn EXCEPT !.state = "ended", !.closed = @ + c.closed,
                 !.raised = IF c.raised THEN {"close"} ELSE {}]

\* main(): sync = CalendarSync() (line 296, outside the try: an exception
\* ends main); then sync.sync_all_events() begins.
MainStart(self) ==
    /\ ~Active(self)
    /\ Started < MaxRuns
    /\ \E outcome \in ConstructOutcomes :
        LET c == CalendarSync(outcome)
        IN  /\ conns' = [conns EXCEPT ![self] = Constructed(c)]
            /\ IF c.raised
               THEN UNCHANGED sync
               ELSE sync' = [sync EXCEPT ![self] =
                               [IdleSync EXCEPT !.pc = "get_calendar_events",
                                                !.run = Started + 1,
                                                !.start_mirror = mirror]]
    /\ UNCHANGED <<db_events, mirror, mirror0, history, WEBHOOK_SECRET, http,
                   mapper>>

\* mysql_events = self.get_calendar_events(): the query answers or raises.
GetCalendarEvents(self) ==
    /\ sync[self].pc = "get_calendar_events"
    /\ \/ \E rows \in Orderings(db_events) :
              sync' = [sync EXCEPT ![self].mysql_events = rows,
                                   ![self].pc = "get_notion_pages"]
       \/ sync' = [sync EXCEPT
                      ![self] = FetchRaised(sync[self], "get_calendar_events")]
    /\ UNCHANGED <<db_events, mirror, mirror0, history, WEBHOOK_SECRET, http,
                   conns, mapper>>

\* One turn of the `while True` of get_notion_pages: one query, its results
\* folded into pages, then the break (and the return to sync_all_events) or
\* the next cursor.  The query answers or raises.
GetNotionPages(self) ==
    /\ sync[self].pc = "get_notion_pages"
    /\ \/ LET me == sync[self]
              response == databases_query(mirror, me.start_cursor)
              pages == AddResults(me.notion_pages, response.results)
              asked == Append(me.queries,
                              [start_cursor |-> me.start_cursor,
                               results |-> response.results,
                               has_more |-> response.has_more,
                               next_cursor |-> response.next_cursor])
          IN  IF ~response.has_more
              THEN sync' = [sync EXCEPT
                               ![self].notion_pages = pages,
                               ![self].fetched = pages,
                               ![self].queries = asked,
                               ![self].pc = LoopPc(me.mysql_events, 1, pages, 1)]
              ELSE sync' = [sync EXCEPT
                               ![self].notion_pages = pages,
                               ![self].queries = asked,
                               ![self].start_cursor = NextCursor(response)]
       \/ sync' = [sync EXCEPT
                      ![self] = FetchRaised(sync[self], "get_notion_pages")]
    /\ UNCHANGED <<db_events, mirror, mirror0, history, WEBHOOK_SECRET, http,
                   conns, mapper>>

\* One turn of `for event_id, event in mysql_events.items()` (lines 259-273).
EventStep(self) ==
    /\ sync[self].pc = "events_loop"
    /\ \E store_ok \in BOOLEAN :
        LET me == sync[self]
            event == me.mysql_events[me.idx]
            event_id == event.event_id
        IN  IF Matched(me.notion_pages, event_id)
            THEN LET page_id == DictGet(me.notion_pages, event_id)
                     r == update_notion_page(mirror, page_id, event, store_ok)
                     call == [op |-> "update", event_id |-> event_id,
                              page_id |-> page_id, handle |-> page_id,
                              result |-> IF r.raised THEN "raised"
                                         ELSE IF store_ok THEN "ok" ELSE "failed"]
                     pages == Consume(me.notion_pages, event_id)
                 IN  /\ mirror' = r.mirror
                     /\ IF r.raised
                        THEN sync' = [sync EXCEPT
                                 ![self].pc = "raised",
                                 ![self].exc = "update_notion_page",
                                 ![self].calls = Append(@, call)]
                        ELSE sync' = [sync EXCEPT
                                 ![self].updated = IF r.ret THEN @ + 1 ELSE @,
                                 ![self].errors = IF r.ret THEN @ ELSE @ + 1,
                                 ![self].notion_pages = pages,
                                 ![self].idx = @ + 1,
                                 ![self].calls = Append(@, call),
                                 ![self].pc = LoopPc(me.mysql_events, me.idx + 1,
                                                     pages, 1)]
            ELSE LET r == create_notion_page(mirror, event, store_ok)
                     call == [op |-> "create", event_id |-> event_id,
                              page_id |-> NoPage,
                              handle |-> IF r.ret = <<>> THEN NoPage
                                         ELSE r.ret[1],
                              result |-> IF r.raised THEN "raised"
                                         ELSE IF store_ok THEN "ok" ELSE "failed"]
                 IN  /\ mirror' = r.mirror
                     /\ IF r.raised
                        THEN sync' = [sync EXCEPT
                                 ![self].pc = "raised",
                                 ![self].exc = "create_notion_page",
                                 ![self].calls = Append(@, call)]
                        ELSE sync' = [sync EXCEPT
                                 ![self].created = IF r.ret # <<>> THEN @ + 1 ELSE @,
                                 ![self].errors = IF r.ret # <<>> THEN @ ELSE @ + 1,
                                 ![self].idx = @ + 1,
                                 ![self].calls = Append(@, call),
                                 ![self].pc = LoopPc(me.mysql_events, me.idx + 1,
                                                     me.notion_pages, 1)]
    /\ UNCHANGED <<db_events, mirror0, history, WEBHOOK_SECRET, http,
                   conns, mapper>>

\* One turn of `for event_id, page_id in notion_pages.items()` (lines 276-280).
ArchiveStep(self) ==
    /\ sync[self].pc = "archive_loop"
    /\ \E store_ok \in BOOLEAN :
        LET me == sync[self]
            entry == me.notion_pages[me.aidx]
            r == delete_notion_page(mirror, entry.value, store_ok)
            call == [op |-> "archive", event_id |-> entry.key,
                     page_id |-> entry.value, handle |-> entry.value,
                     result |-> IF store_ok THEN "ok" ELSE "failed"]
        IN  /\ mirror' = r.mirror
            /\ sync' = [sync EXCEPT
                   ![self].deleted = IF r.ret THEN @ + 1 ELSE @,
                   ![self].errors = IF r.ret THEN @ ELSE @ + 1,
                   ![self].aidx = @ + 1,
                   ![self].calls = Append(@, call),
                   ![self].pc = LoopPc(me.mysql_events, me.idx,
                                       me.notion_pages, me.aidx + 1)]
    /\ UNCHANGED <<db_events, mirror0, history, WEBHOOK_SECRET, http,
                   conns, mapper>>

\* The lines the summary prints (lines 282-287).
SummaryLines(errors) ==
    <<"Sync completed!", "Created", "Updated", "Deleted">>
        \o (IF errors > 0 THEN <<"Errors">> ELSE <<>>)

Summary(self) ==
    /\ sync[self].pc = "summary"
    /\ sync' = [sync EXCEPT ![self].printed = SummaryLines(sync[self].errors),
                            ![self].pc = "returned"]
    /\ UNCHANGED <<db_events, mirror, mirror0, history, WEBHOOK_SECRET, http,
                   conns, mapper>>

\* main(): `finally: sync.close()`, reached whether the pass has returned
\* or raised.
MainClose(self) ==
    /\ sync[self].pc \in {"returned", "raised"}
    /\ \E cursor_close_ok \in BOOLEAN :
          conns' = [conns EXCEPT
                       ![self] = Closed(@, close(cursor_close_ok))]
    /\ history' = Append(history, sync[self])
    /\ sync' = [sync EXCEPT ![self] = IdleSync]
    /\ UNCHANGED <<db_events, mirror, mirror0, WEBHOOK_SECRET, http, mapper>>


\* ---------------------------------------------------------------- webhook
\* Values of the X-Webhook-Signature header, and what HMAC-SHA256 yields.
\* The digest is taken to be collision-free: it determines key and body.
NoHeader == [kind |-> "none", secret |-> None, body |-> None]
EmptyHeader == [kind |-> "empty", secret |-> None, body |-> None]
NonAsciiHeader == [kind |-> "nonascii", secret |-> None, body |-> None]
OtherHeader == [kind |-> "ascii", secret |-> None, body |-> None]

\* hmac.new(secret.encode(), body, hashlib.sha256).hexdigest()
HexDigest(secret, body) == [kind |-> "hexdigest", secret |-> secret, body |-> body]

Keys == {"", "s1", "s2"}
Bodies == {"b1", "b2"}
Signatures ==
    {NoHeader, EmptyHeader, NonAsciiHeader, OtherHeader}
    \cup {HexDigest(k, b) : k \in Keys, b \in Bodies}

\* hmac.compare_digest(a, b) on str: TypeError unless both are ASCII.
compare_digest(a, b) ==
    IF a.kind = "nonascii" THEN "TypeError"
    ELSE IF a = b THEN "True" ELSE "False"

\* verify_signature without its `if not WEBHOOK_SECRET` guard.
verify_signature_NoSecretCheck(secret, signature, body) ==
    compare_digest(signature, HexDigest(IF secret = None THEN "" ELSE secret, body))

\* verify_signature(signature, body), with WEBHOOK_SECRET = secret.
verify_signature(secret, signature, body) ==
    IF ~Truthy(secret) THEN "False"
    ELSE compare_digest(signature, HexDigest(secret, body))

\* No request being served.  status and content are the response's HTTP
\* status and the "status" of its JSON body ("detail": the body of an
\* HTTPException; "Internal Server Error": the server's answer to an
\* exception the handler let through); raised collects where an exception
\* was raised inside the handler's try block.
IdleHttp ==
    [pc |-> "idle", signature |-> NoHeader, body |-> None, status |-> None,
     content |-> None, raised |-> {}, constructions |-> 0, passes |-> 0]

\* raise HTTPException(status_code=401, ...) (lines 38, 45)
Unauthorized(request) ==
    [request EXCEPT !.pc = "responded", !.status = "401", !.content = "detail"]

\* An exception the handler does not catch: the server answers 500.
Propagated(request) ==
    [request EXCEPT !.pc = "responded", !.status = "500",
                    !.content = "Internal Server Error"]

\* The `return` of line 52 taken although `finally` raised.
Response_ReturnWins(pass_pc, close_ok) ==
    IF pass_pc = "returned"
    THEN [status |-> "200", content |-> "success"]
    ELSE [status |-> "500", content |-> "error"]

\* Lines 50-61: the JSONResponse of the handler, given how sync_all_events
\* ended and whether sync.close() returned: an exception of either reaches
\* `except Exception` (one raised in `finally` replaces the pending return).
Response(pass_pc, close_ok) ==
    IF pass_pc = "returned" /\ close_ok
    THEN [status |-> "200", content |-> "success"]
    ELSE [status |-> "500", content |-> "error"]

\* calendar_sync_webhook up to the try block (lines 35-45): the header is
\* read, the body awaited, the signature verified.  A new invocation: it
\* has no connection yet.
WebhookReceive(self) ==
    /\ http.pc \in {"idle", "responded"}
    /\ ~Active(self)
    /\ Started < MaxRuns
    /\ \E signature \in Signatures, body \in Bodies :
        LET request == [IdleHttp EXCEPT !.signature = signature, !.body = body]
            verified == verify_signature(WEBHOOK_SECRET, signature, body)
        IN  http' =
              IF signature.kind \in {"none", "empty"}
              THEN Unauthorized(request)
              ELSE IF verified = "TypeError"
              THEN Propagated(request)
              ELSE IF verified = "False"
              THEN Unauthorized(request)
              ELSE [request EXCEPT !.pc = "construct"]
    /\ conns' = [conns EXCEPT ![self] = NoInvocation]
    /\ UNCHANGED <<db_events, mirror, mirror0, sync, history, WEBHOOK_SECRET,
                   mapper>>

\* sync = CalendarSync() (line 49): the database connection is made, or
\* connecting raises and `except Exception` answers 500.
WebhookConstruct(self) ==
    /\ http.pc = "construct"
    /\ \E outcome \in ConstructOutcomes :
        LET c == CalendarSync(outcome)
        IN  /\ conns' = [conns EXCEPT ![self] = Constructed(c)]
            /\ IF c.raised
               THEN /\ http' = [http EXCEPT !.pc = "responded",
                                            !.status = "500",
                                            !.content = "error",
                                            !.raised = {"CalendarSync"},
                                            !.constructions = @ + 1]
                    /\ UNCHANGED sync
               ELSE /\ sync' = [sync EXCEPT ![self] =
                                   [IdleSync EXCEPT
                                       !.pc = "get_calendar_events",
                                       !.run = Started + 1,
                                       !.start_mirror = mirror]]
                    /\ http' = [http EXCEPT !.pc = "sync",
                                            !.constructions = @ + 1,
                                            !.passes = @ + 1]
    /\ UNCHANGED <<db_events, mirror, mirror0, history, WEBHOOK_SECRET, mapper>>

\* Lines 52-61: sync_all_events has returned or raised; `finally` closes
\* the connections (which may itself raise), reached either way; the
\* response is 200 when nothing was raised and 500 otherwise.
WebhookFinish(self) ==
    /\ http.pc = "sync"
    /\ sync[self].pc \in {"returned", "raised"}
    /\ \E cursor_close_ok \in BOOLEAN :
          LET c == close(cursor_close_ok)
              response == Response(sync[self].pc, ~c.raised)
          IN  /\ conns' = [conns EXCEPT ![self] = Closed(@, c)]
              /\ http' = [http EXCEPT
                              !.pc = "responded",
                              !.status = response.status,
                              !.content = response.content,
                              !.raised =
                                  (IF sync[self].pc = "raised"
                                   THEN {"sync_all_events"} ELSE {})
                                  \cup (IF c.raised THEN {"close"} ELSE {})]
    /\ history' = Append(history, sync[self])
    /\ sync' = [sync EXCEPT ![self] = IdleSync]
    /\ UNCHANGED <<db_events, mirror, mirror0, WEBHOOK_SECRET, mapper>>

\* ------------------------------------------------- text (Python str, SQL)
\* A text whose characters the code looks at is a sequence of one-character
\* strings; NULL in such a column is NullText.  An optional integer is <<>>
\* (NULL) or <<n>>.
NullText == <<None>>
NullInt == <<>>

\* Truth value of an optional text (`if event["attendees"]`, `if by_day:`).
TruthyText(s) == s # NullText /\ s # <<>>

\* The text as a string.
RECURSIVE Str(_)
Str(cs) == IF cs = <<>> THEN "" ELSE Head(cs) \o Str(Tail(cs))

UpperCase ==
    <<"A", "B", "C", "D", "E", "F", "G", "H", "I", "J", "K", "L", "M",
      "N", "O", "P", "Q", "R", "S", "T", "U", "V", "W", "X", "Y", "Z">>
LowerCase ==
    <<"a", "b", "c", "d", "e", "f", "g", "h", "i", "j", "k", "l", "m",
      "n", "o", "p", "q", "r", "s", "t", "u", "v", "w", "x", "y", "z">>

\* str.lower()
lower(s) ==
    [i \in 1..Len(s) |->
        IF \E k \in 1..Len(UpperCase) : UpperCase[k] = s[i]
        THEN LowerCase[CHOOSE k \in 1..Len(UpperCase) : UpperCase[k] = s[i]]
        ELSE s[i]]

\* str.strip(): blanks at either end removed.
RECURSIVE strip(_)
strip(s) ==
    IF s = <<>> THEN s
    ELSE IF Head(s) = " " THEN strip(Tail(s))
    ELSE IF s[Len(s)] = " " THEN strip(SubSeq(s, 1, Len(s) - 1))
    ELSE s

\* Positions of s at which sep begins.
Occurrences(s, sep) ==
    {i \in 1..(Len(s) - Len(sep) + 1) : SubSeq(s, i, i + Len(sep) - 1) = sep}

\* str.split(sep): the pieces between the separators, from the left.
RECURSIVE split(_, _)
split(s, sep) ==
    IF Occurrences(s, sep) = {} THEN <<s>>
    ELSE LET i == CHOOSE k \in Occurrences(s, sep) :
                      \A j \in Occurrences(s, sep) : k <= j
         IN  <<SubSeq(s, 1, i - 1)>>
                 \o split(SubSeq(s, i + Len(sep), Len(s)), sep)

\* sep.join(parts), on strings.
RECURSIVE join(_, _)
join(sep, parts) ==
    IF parts = <<>> THEN ""
    ELSE IF Len(parts) = 1 THEN parts[1]
    ELSE parts[1] \o sep \o join(sep, Tail(parts))

\* The same on texts.
RECURSIVE JoinText(_, _)
JoinText(sep, parts) ==
    IF parts = <<>> THEN <<>>
    ELSE IF Len(parts) = 1 THEN parts[1]
    ELSE parts[1] \o sep \o JoinText(sep, Tail(parts))

\* GROUP_CONCAT(DISTINCT a.attendee_email SEPARATOR ', ') over the attendee
\* rows of an event (lines 74-77): NULL when there is none.
GROUP_CONCAT(emails) ==
    IF emails = <<>> THEN NullText ELSE JoinText(<<",", " ">>, emails)

\* ---------------------------------------------------- recurrence formatter
day_mapping ==
    [MO |-> "Monday", TU |-> "Tuesday", WE |-> "Wednesday", TH |-> "Thursday",
     FR |-> "Friday", SA |-> "Saturday", SU |-> "Sunday"]

\* A lookup without the strip.
day_mapping_get_Unstripped(day) ==
    IF Str(day) \in DOMAIN day_mapping THEN day_mapping[Str(day)]
    ELSE Str(strip(day))

\* day_mapping.get(day.strip(), day.strip()) (line 121)
day_mapping_get(day) ==
    IF Str(strip(day)) \in DOMAIN day_mapping
    THEN day_mapping[Str(strip(day))]
    ELSE Str(strip(day))

\* event["interval"] or 1 (line 99)
IntervalOr1(interval) ==
    IF interval = NullInt \/ interval[1] = 0 THEN 1 ELSE interval[1]

\* _format_recurrence_text(event) (lines 92-130): a string, or None.
format_recurrence_text(event) ==
    IF ~TruthyText(event.recurrence_type) THEN None
    ELSE
      LET recurrence_type == Str(lower(event.recurrence_type))
          interval == IntervalOr1(event.interval)
          by_day == event.by_day
          lead == IF interval = 1
                  THEN "Every " \o recurrence_type
                  ELSE "Every " \o ToString(interval) \o " "
                           \o recurrence_type \o "s"
          days == split(by_day, <<",">>)
          formatted_days == [i \in 1..Len(days) |-> day_mapping_get(days[i])]
          n == Len(formatted_days)
          parts ==
              IF ~TruthyText(by_day) THEN <<lead>>
              ELSE IF n = 1 THEN <<lead, "on " \o formatted_days[1]>>
              ELSE <<lead,
                     "on " \o join(", ", SubSeq(formatted_days, 1, n - 1))
                           \o " and " \o formatted_days[n]>>
      IN  join(" ", parts)

\* ---------------------------------------------------------- property mapper
\* A payload (and the properties stored on a page) is a function from
\* property names to values; d[k] = v on a dict is (k :> v) @@ d.
\* The attendees list of lines 135 and 183.
AttendeesList(event) ==
    IF TruthyText(event.attendees)
    THEN split(event.attendees, <<",", " ">>)
    ELSE <<>>

\* [{"name": email.strip()} for email in attendees if email.strip()]
MultiSelect(attendees) ==
    LET kept == SelectSeq(attendees, LAMBDA email : strip(email) # <<>>)
    IN  [i \in 1..Len(kept) |-> strip(kept[i])]

\* The conditional entries of the payload (lines 155-170 and 203-218).
WithOptional(properties, event, recurrence_text, attendees) ==
    LET p1 == IF Truthy(event.description)
              THEN ("Description" :> event.description) @@ properties
              ELSE properties
        p2 == IF Truthy(recurrence_text)
              THEN ("Recurrence" :> recurrence_text) @@ p1
              ELSE p1
    IN  IF attendees # <<>>
        THEN ("Attendees" :> MultiSelect(attendees)) @@ p2
        ELSE p2

\* The properties update_notion_page sends (lines 135-170).
update_properties(event) ==
    WithOptional(Properties(event), event, format_recurrence_text(event),
                 AttendeesList(event))

\* The properties create_notion_page sends (lines 183-218).
create_properties(event) ==
    WithOptional(Properties(event), event, format_recurrence_text(event),
                 AttendeesList(event))

\* notion.pages.update(page_id, properties) on the stored properties of a
\* page: those the payload names are replaced, the others stay.
update_page_properties(stored, properties) == properties @@ stored

\* ------------------------------------------------ events given to the mapper
\* Bounds of the texts tried.
MaxEmails == 2
MaxEmailLen == 2
MaxDays == 3
MaxInterval == 3

SeqsUpTo(S, n) == UNION {[1..k -> S] : k \in 0..n}

Distinct(s) == \A i, j \in 1..Len(s) : i # j => s[i] # s[j]

\* Attendee rows of an event: distinct, non-empty emails, in the order the
\* aggregation takes them.
Emails == SeqsUpTo({"a", " "}, MaxEmailLen) \ {<<>>}
EmailLists == {es \in SeqsUpTo(Emails, MaxEmails) : Distinct(es)}

\* Weekday codes as the recurrence table may hold them.
Codes == {<<"M", "O">>, <<"W", "E">>, <<" ", "F", "R", " ">>, <<"X", "X">>}
CodeLists == SeqsUpTo(Codes, MaxDays)

Units == {NullText, <<>>, <<"W", "e", "e", "k">>, <<"M", "O", "N", "T", "H">>}
Intervals == {NullInt} \cup {<<n>> : n \in 1..MaxInterval}
Descriptions == {None, "", "d"}

\* The by_day column of a set of codes: NULL, or the codes comma-separated.
ByDay(codes) ==
    IF codes = <<>> THEN NullText ELSE JoinText(<<",">>, codes)

MapperEvent(description, emails, unit, interval, by_day) ==
    [event_id |-> "A", title |-> "T", start_time |-> "t1", end_time |-> "t2",
     calendar_name |-> "Cal", description |-> description,
     attendees |-> GROUP_CONCAT(emails),
     recurrence_type |-> unit, interval |-> interval, by_day |-> by_day]

\* The events tried: every attendee list with every description, and every
\* recurrence row (an event without one has NULL in its three columns).
MapperInputs ==
    { [emails |-> es, codes |-> <<>>,
       event |-> MapperEvent(d, es, u, NullInt, NullText)] :
          es \in EmailLists, d \in Descriptions,
          u \in {NullText, <<"W", "e", "e", "k">>} }
    \cup
    UNION { { [emails |-> <<>>, codes |-> cs,
               event |-> MapperEvent(None, <<>>, u, n, b)] :
                  u \in Units, n \in Intervals,
                  b \in {ByDay(cs)} \cup (IF cs = <<>> THEN {<<>>} ELSE {}) } :
            cs \in CodeLists }

\* What a page holds before an update: nothing optional, or old values.
StoredBefore ==
    { Properties([event_id |-> "A"]),
      ("Description" :> "old") @@ ("Recurrence" :> "Every day")
          @@ ("Attendees" :> << <<"o">> >>) @@ Properties([event_id |-> "A"]) }

\* No event is being mapped.
IdleMapper == [pc |-> "idle"]

\* create_notion_page(event) on an event of the source: the payload it
\* builds and the page the store makes of it.
MapperCreate ==
    /\ mapper.pc = "event"
    /\ LET properties == create_properties(mapper.event)
       IN  mapper' = [mapper EXCEPT
                         !.pc = "created",
                         !.recurrence_text = format_recurrence_text(mapper.event),
                         !.created = properties]
    /\ UNCHANGED <<db_events, mirror, mirror0, sync, history, WEBHOOK_SECRET,
                   http, conns>>

\* update_notion_page(page_id, event) with the same event on a page that
\* holds mapper.stored; the store accepts the update or rejects it.
MapperUpdate ==
    /\ mapper.pc = "created"
    /\ \E store_ok \in BOOLEAN :
        LET properties == update_properties(mapper.event)
        IN  mapper' = [mapper EXCEPT
                          !.pc = "updated",
                          !.updated = properties,
                          !.store_ok = store_ok,
                          !.after = IF store_ok
                                    THEN update_page_properties(mapper.stored,
                                                                properties)
                                    ELSE mapper.stored]
    /\ UNCHANGED <<db_events, mirror, mirror0, sync, history, WEBHOOK_SECRET,
                   http, conns>>

\* --------------------------------------------------------- specification
\* Before the first pass the mirror holds any pages that are not archived:
\* an archived page is not returned by databases.query, so the program never
\* learns its handle (archived pages arise from the passes themselves).
InitMirrors ==
    UNION { [1..n -> {s \in PageShapes : ~s.archived}] : n \in 0..MaxInit }

InitEvents == { S \in SUBSET Rows : UniqueIds(S) }

InitStores ==
    /\ db_events \in InitEvents
    /\ mirror \in InitMirrors
    /\ mirror0 = mirror
    /\ sync = [p \in Procs |-> IdleSync]
    /\ history = <<>>
    /\ conns = [p \in Procs |-> NoInvocation]
    /\ mapper = IdleMapper

\* The command line: no web server, no request.
Init ==
    /\ InitStores
    /\ WEBHOOK_SECRET = None
    /\ http = IdleHttp

Next ==
    \E self \in MainProcs :
        \/ MainStart(self)
        \/ GetCalendarEvents(self)
        \/ GetNotionPages(self)
        \/ EventStep(self)
        \/ ArchiveStep(self)
        \/ Summary(self)
        \/ MainClose(self)

Spec == Init /\ [][Next]_vars

\* The web server: passes are started by requests to the webhook.
InitWebhook ==
    /\ InitStores
    /\ WEBHOOK_SECRET \in {None, "", "s1"}
    /\ http = IdleHttp

NextWebhook ==
    \E self \in WebProcs :
        \/ WebhookReceive(self)
        \/ WebhookConstruct(self)
        \/ GetCalendarEvents(self)
        \/ GetNotionPages(self)
        \/ EventStep(self)
        \/ ArchiveStep(self)
        \/ Summary(self)
        \/ WebhookFinish(self)

SpecWebhook == InitWebhook /\ [][NextWebhook]_vars

\* The command line and the web server side by side, against the same
\* events table and the same Notion database: main() may run while a
\* request is being served.  There are events, all with their times; the
\* mirror starts with at most one page, which carries an identifier; the
\* secret is configured.
InitBoth ==
    /\ InitStores
    /\ db_events # {}
    /\ \A r \in db_events : r.start_time # None /\ r.end_time # None
    /\ Len(mirror) <= 1
    /\ \A h \in 1..Len(mirror) : mirror[h].event_id_prop \notin Unreadable
    /\ WEBHOOK_SECRET = "s1"
    /\ http = IdleHttp

NextBoth == Next \/ NextWebhook

SpecBoth == InitBoth /\ [][NextBoth]_vars

\* The property mapper and the recurrence formatter on their own: an event
\* of the source is mapped for a create and for an update of a page.
InitMapper ==
    /\ db_events = {}
    /\ mirror = <<>>
    /\ mirror0 = <<>>
    /\ sync = [p \in Procs |-> IdleSync]
    /\ history = <<>>
    /\ conns = [p \in Procs |-> NoInvocation]
    /\ WEBHOOK_SECRET = None
    /\ http = IdleHttp
    /\ \E input \in MapperInputs, stored \in StoredBefore :
          mapper = [pc |-> "event", event |-> input.event,
                    emails |-> input.emails, codes |-> input.codes,
                    stored |-> stored, recurrence_text |-> None,
                    created |-> <<>>, updated |-> <<>>, store_ok |-> FALSE,
                    after |-> stored]

NextMapper == MapperCreate \/ MapperUpdate

SpecMapper == InitMapper /\ [][NextMapper]_vars

\* ================================================================ claims
\* Vocabulary of the claims.
EventIds(events) == {events[i].event_id : i \in 1..Len(events)}

\* The pass has ended: sync_all_events returned or an exception left it.
Ended(me) == me.pc \in {"returned", "raised"}

\* Both fetches of the pass have returned.
Fetched(me) == me.pc \in {"events_loop", "archive_loop", "summary", "returned"}
               \/ (me.pc = "raised"
                   /\ me.exc \in {"update_notion_page", "create_notion_page"})

CallArgs(c) == [op |-> c.op, event_id |-> c.event_id, page_id |-> c.page_id]

Times(calls, args) ==
    Cardinality({i \in 1..Len(calls) : CallArgs(calls[i]) = args})

NumCalls(calls, op, results) ==
    Cardinality({i \in 1..Len(calls) :
                    calls[i].op = op /\ calls[i].result \in results})

AnyResult == {"ok", "failed", "raised"}

\* The calls the set difference of E (event rows) and C (correspondences)
\* asks for.
ExpectedCalls(E, C) ==
    {[op |-> "update", event_id |-> k, page_id |-> DictGet(C, k)] :
        k \in EventIds(E) \cap DictKeys(C)}
    \cup {[op |-> "create", event_id |-> k, page_id |-> NoPage] :
        k \in EventIds(E) \ DictKeys(C)}
    \cup {[op |-> "archive", event_id |-> k, page_id |-> DictGet(C, k)] :
        k \in DictKeys(C) \ EventIds(E)}

ExactlyExpected(me) ==
    /\ \A x \in ExpectedCalls(me.mysql_events, me.fetched) : Times(me.calls, x) = 1
    /\ \A i \in 1..Len(me.calls) :
          CallArgs(me.calls[i]) \in ExpectedCalls(me.mysql_events, me.fetched)

\* C1: in a pass whose two fetches succeeded, by the time the pass has
\* ended update has been called exactly once for every identifier of E that
\* is in C (with page C[id]), create exactly once for every identifier of E
\* not in C, archive exactly once for the page of every identifier of C not
\* in E, and nothing else has been called.
C1_ExactDiffCalls ==
    \A p \in Procs :
        (Ended(sync[p]) /\ Fetched(sync[p])) => ExactlyExpected(sync[p])

\* The same for the passes that reach their summary (no exception left a
\* mutator): the reconciliation proper.
C1_ExactDiffCallsReturned ==
    \A p \in Procs :
        /\ Fetched(sync[p]) =>
              \A i \in 1..Len(sync[p].calls) :
                 /\ CallArgs(sync[p].calls[i])
                      \in ExpectedCalls(sync[p].mysql_events, sync[p].fetched)
                 /\ Times(sync[p].calls, CallArgs(sync[p].calls[i])) = 1
        /\ sync[p].pc = "returned" => ExactlyExpected(sync[p])

\* Non-archived pages of m whose identifier property reads as id.
Carriers(m, id) ==
    {h \in 1..Len(m) :
        ~m[h].archived /\ get_property_content(m[h].event_id_prop) = id}

\* Strict one-to-one correspondence between the source events and the
\* non-archived pages that carry an identifier.
OneToOne(events, m) ==
    /\ \A r \in events : Cardinality(Carriers(m, r.event_id)) = 1
    /\ \A h \in 1..Len(m) :
          (~m[h].archived /\ Truthy(get_property_content(m[h].event_id_prop)))
              => \E r \in events :
                    r.event_id = get_property_content(m[h].event_id_prop)

AllSucceeded(calls) == \A i \in 1..Len(calls) : calls[i].result = "ok"

\* No identifier is carried by more than one non-archived page.
NoDuplicates(m) == \A id \in MirrorIds : Cardinality(Carriers(m, id)) <= 1

\* C2 as stated: after a pass in which every mutation call succeeded, from
\* any mirror whatever, source events and identifier-carrying non-archived
\* pages are in one-to-one correspondence.
C2_OneToOneFromAnyMirror ==
    \A p \in Procs :
        (sync[p].pc = "returned" /\ AllSucceeded(sync[p].calls))
            => OneToOne(db_events, mirror)

\* C2 amended: the same, for a pass that starts from a mirror in which no
\* identifier is carried by more than one non-archived page.
C2_OneToOneFromDuplicateFreeMirror ==
    \A p \in Procs :
        (/\ sync[p].pc = "returned"
         /\ AllSucceeded(sync[p].calls)
         /\ NoDuplicates(sync[p].start_mirror))
            => OneToOne(db_events, mirror)

\* A pass from a duplicate-free mirror has created, updated and archived,
\* every call succeeding.
C2_Witness ==
    \E p \in Procs :
        /\ sync[p].pc = "returned"
        /\ AllSucceeded(sync[p].calls)
        /\ NoDuplicates(sync[p].start_mirror)
        /\ sync[p].created > 0 /\ sync[p].updated > 0 /\ sync[p].deleted > 0

\* The first and the second pass both ran to their summary.
TwoRuns ==
    /\ Len(history) >= 2
    /\ history[1].pc = "returned"
    /\ history[2].pc = "returned"

SecondRunOnlyUpdates ==
    /\ NumCalls(history[2].calls, "create", AnyResult) = 0
    /\ NumCalls(history[2].calls, "archive", AnyResult) = 0
    /\ NumCalls(history[2].calls, "update", AnyResult) = Cardinality(db_events)

\* C3 as stated: two passes in sequence over the same N source events, the
\* mirror touched by nothing else: the second pass makes no create call, no
\* archive call and exactly N update calls, whatever the source and the
\* initial mirror.
C3_IdempotentFromAnyMirror == TwoRuns => SecondRunOnlyUpdates

\* No identifier that is absent from the source is carried by more than one
\* non-archived page.
NoStaleDuplicates(events, m) ==
    \A id \in MirrorIds :
        (\A r \in events : r.event_id # id) => Cardinality(Carriers(m, id)) <= 1

FirstRunConverged ==
    /\ NumCalls(history[1].calls, "create", {"failed"}) = 0
    /\ NumCalls(history[1].calls, "archive", {"failed"}) = 0
    /\ NoStaleDuplicates(db_events, mirror0)

\* C3 amended: the same when every create and archive call of the first
\* pass succeeded and the initial mirror holds no identifier absent from the
\* source on more than one non-archived page.
C3_IdempotentAfterConvergedRun ==
    (TwoRuns /\ FirstRunConverged) => SecondRunOnlyUpdates

\* Two passes, the first of which created and archived (all succeeding)
\* and had an update fail; the second had something to update.
C3_Witness ==
    /\ TwoRuns
    /\ FirstRunConverged
    /\ NumCalls(history[1].calls, "create", {"ok"}) > 0
    /\ NumCalls(history[1].calls, "archive", {"ok"}) > 0
    /\ NumCalls(history[1].calls, "update", {"failed"}) > 0
    /\ Cardinality(db_events) = 2

\* Calls that reached the store and failed there.
Failed(calls) == Cardinality({i \in 1..Len(calls) : calls[i].result = "failed"})

\* C4: when a pass completes, created + updated + deleted + errors equals
\* |E| + |C \ E|; created, updated and deleted count the create, update and
\* archive calls that succeeded and errors the calls that failed.  For the
\* events {A, B} and a mirror holding a page for A only, all calls
\* succeeding, the counts are created 1, updated 1, deleted 0, errors 0.
C4_CountsAddUp ==
    \A p \in Procs :
        LET me == sync[p] IN
        me.pc = "returned" =>
            /\ me.created + me.updated + me.deleted + me.errors
                 = Len(me.mysql_events)
                   + Cardinality(DictKeys(me.fetched) \ EventIds(me.mysql_events))
            /\ me.created = NumCalls(me.calls, "create", {"ok"})
            /\ me.updated = NumCalls(me.calls, "update", {"ok"})
            /\ me.deleted = NumCalls(me.calls, "archive", {"ok"})
            /\ me.errors = Failed(me.calls)
            /\ (/\ EventIds(me.mysql_events) = {"A", "B"}
                /\ DictKeys(me.fetched) = {"A"}
                /\ AllSucceeded(me.calls))
                  => /\ me.created = 1 /\ me.updated = 1
                     /\ me.deleted = 0 /\ me.errors = 0

\* The end-to-end scenario: events A and B, a page for A only, no failure.
C4_Witness ==
    \E p \in Procs :
        /\ sync[p].pc = "returned"
        /\ EventIds(sync[p].mysql_events) = {"A", "B"}
        /\ DictKeys(sync[p].fetched) = {"A"}
        /\ AllSucceeded(sync[p].calls)

\* C5: when the store call of a create, update or archive fails for some
\* identifier of a pass, each such failure is counted as exactly one error
\* and every identifier of the pass still receives its own call.
C5_FailureIsolated ==
    \A p \in Procs :
        (Ended(sync[p]) /\ Fetched(sync[p]) /\ Failed(sync[p].calls) > 0)
            => /\ sync[p].errors = Failed(sync[p].calls)
               /\ ExactlyExpected(sync[p])

\* The same for the passes that reach their summary.
C5_FailureIsolatedReturned ==
    \A p \in Procs :
        (sync[p].pc = "returned" /\ Failed(sync[p].calls) > 0)
            => /\ sync[p].errors = Failed(sync[p].calls)
               /\ ExactlyExpected(sync[p])

\* C6: no exception leaves create_notion_page, update_notion_page or
\* delete_notion_page, whatever the event record and the store's answer.
C6_NoExceptionEscapes ==
    \A p \in Procs :
        ~(sync[p].pc = "raised"
          /\ sync[p].exc \in {"update_notion_page", "create_notion_page"})

FetchErrors == {"get_calendar_events", "get_notion_pages"}

\* C7: when a fetch raises (the event query, or any query of the paginated
\* correspondence fetch) the pass ends with that error, no create, update
\* or archive call has been made in it and the mirror is as it was.
C7_FetchErrorAbortsBeforeMutation ==
    /\ \A p \in Procs :
          sync[p].exc \in FetchErrors =>
              /\ sync[p].pc = "raised"
              /\ sync[p].calls = <<>>
              /\ mirror = sync[p].start_mirror
    /\ \A i \in 1..Len(history) :
          history[i].exc \in FetchErrors =>
              /\ history[i].pc = "raised"
              /\ history[i].calls = <<>>

\* The correspondence fetch failed on a later query, after a first result
\* page that held an identifier, with events waiting in the source.
C7_Witness ==
    \E p \in Procs :
        /\ sync[p].pc = "raised"
        /\ sync[p].exc = "get_notion_pages"
        /\ Len(sync[p].queries) >= 1
        /\ sync[p].notion_pages # <<>>
        /\ sync[p].mysql_events # <<>>

\* The pages of all result pages of a fetch, in the order received.
RECURSIVE AllResults(_)
AllResults(queries) ==
    IF queries = <<>> THEN <<>>
    ELSE AllResults(SubSeq(queries, 1, Len(queries) - 1))
             \o queries[Len(queries)].results

Readable(page) == Truthy(get_property_content(page.event_id_prop))

\* The requests made so far: the first without cursor, each later one with
\* the cursor of the response before it, and the next one likewise.
ChainedRequests(me) ==
    /\ me.queries # <<>> => me.queries[1].start_cursor = NoCursor
    /\ \A i \in 2..Len(me.queries) :
          me.queries[i].start_cursor = me.queries[i - 1].next_cursor
    /\ (me.pc = "get_notion_pages" /\ me.queries # <<>>)
          => me.start_cursor = me.queries[Len(me.queries)].next_cursor

\* K requests: has_more on all result pages but the last.
ExactlyKRequests(queries) ==
    /\ Len(queries) >= 1
    /\ \A i \in 1..Len(queries) : queries[i].has_more <=> i < Len(queries)

\* C8 as stated: a completed correspondence fetch has issued exactly K
\* requests chained by the store's cursors, and the map it returns holds the
\* identifier-to-handle entry of every page with a readable identifier found
\* on any of the K result pages.
C8_EveryPageEntryReturned ==
    \A p \in Procs :
        /\ ChainedRequests(sync[p])
        /\ Fetched(sync[p]) =>
            /\ ExactlyKRequests(sync[p].queries)
            /\ LET found == AllResults(sync[p].queries) IN
               \A i \in 1..Len(found) :
                   Readable(found[i]) =>
                       /\ DictHas(sync[p].fetched,
                                  get_property_content(found[i].event_id_prop))
                       /\ DictGet(sync[p].fetched,
                                  get_property_content(found[i].event_id_prop))
                            = found[i].id

\* C8 amended: the map holds exactly the readable identifiers found on the K
\* result pages, each mapped to the handle of the last page found carrying
\* it (so the entry of every page when no two pages share an identifier).
C8_LastPageEntryReturned ==
    \A p \in Procs :
        /\ ChainedRequests(sync[p])
        /\ Fetched(sync[p]) =>
            /\ ExactlyKRequests(sync[p].queries)
            /\ LET found == AllResults(sync[p].queries)
                   C == sync[p].fetched
               IN  /\ \A i \in 1..Len(found) :
                          Readable(found[i]) =>
                            LET k == get_property_content(found[i].event_id_prop)
                            IN  /\ DictHas(C, k)
                                /\ (\A j \in (i + 1)..Len(found) :
                                        get_property_content(found[j].event_id_prop) # k)
                                      => DictGet(C, k) = found[i].id
                   /\ \A k \in DictKeys(C) :
                          \E i \in 1..Len(found) :
                              /\ Readable(found[i])
                              /\ get_property_content(found[i].event_id_prop) = k

\* A fetch of three requests whose result pages held two readable
\* identifiers and an unreadable one.
C8_Witness ==
    \E p \in Procs :
        /\ Fetched(sync[p])
        /\ Len(sync[p].queries) >= 3
        /\ Len(sync[p].fetched) = 2
        /\ \E i \in 1..3 : ~Readable(sync[p].queries[i].results[1])

\* Handles that are in a correspondence map or were the target of an update
\* or archive call.
Touched(me) ==
    {me.notion_pages[i].value : i \in 1..Len(me.notion_pages)}
    \cup {me.fetched[i].value : i \in 1..Len(me.fetched)}
    \cup {me.calls[i].page_id : i \in {j \in 1..Len(me.calls) :
                                          me.calls[j].op \in {"update", "archive"}}}

\* C9: a page whose identifier property is absent, is not text, has no
\* segments or is empty is in no correspondence map, is the target of no
\* update or archive call of any pass, and stays as it was.
C9_OrphansUntouched ==
    \A h \in 1..Len(mirror) :
        mirror[h].event_id_prop \in Unreadable =>
            /\ \A p \in Procs : h \notin Touched(sync[p])
            /\ \A i \in 1..Len(history) : h \notin Touched(history[i])
            /\ h <= Len(mirror0) /\ mirror[h] = mirror0[h]

\* A pass that has updated and archived ran over a mirror holding a page
\* with an empty identifier.
C9_Witness ==
    \E p \in Procs :
        /\ sync[p].pc = "returned"
        /\ sync[p].updated > 0 /\ sync[p].deleted > 0
        /\ \E h \in 1..Len(mirror) : mirror[h].event_id_prop = IdProperty("")

\* The request carries the HMAC-SHA256 of its body under the configured,
\* non-empty secret: what verify_signature is to return true for.
ValidSignature ==
    /\ Truthy(WEBHOOK_SECRET)
    /\ http.signature = HexDigest(WEBHOOK_SECRET, http.body)

\* The handler has got past verification for the current request.
PastVerification ==
    \/ http.pc \in {"construct", "sync"}
    \/ http.constructions > 0
    \/ http.passes > 0
    \/ \E p \in WebProcs : Active(p)

\* A verified request is answered only once its pass has ended; it starts
\* one pass (none when CalendarSync() itself raised, answered 500).
AnsweredAfterPass ==
    (http.pc = "responded" /\ ValidSignature) =>
        /\ \A p \in WebProcs : ~Active(p)
        /\ http.constructions = 1
        /\ http.passes <= 1
        /\ http.status \in {"200", "500"}
        /\ http.passes = 0 => http.status = "500"
        /\ http.passes = 1 =>
              /\ history # <<>>
              /\ Ended(history[Len(history)])
              /\ history[Len(history)].run = Len(history)

\* C10: at the trigger endpoint nothing of a pass (construction, fetch,
\* mutation) happens unless the request's signature is valid; a request
\* whose signature is missing or invalid is answered 401; a request whose
\* signature is valid starts one pass and is answered after it has ended.
C10_VerifiedBeforePass ==
    /\ PastVerification => ValidSignature
    /\ (http.pc = "responded" /\ ~ValidSignature) =>
          /\ http.status = "401"
          /\ http.constructions = 0 /\ http.passes = 0
    /\ AnsweredAfterPass

\* The same with the answer to an invalid signature being 401 or, when
\* comparing the signature raises, the server's 500.
C10_VerifiedBeforePassOrError ==
    /\ PastVerification => ValidSignature
    /\ (http.pc = "responded" /\ ~ValidSignature) =>
          /\ http.status \in {"401", "500"}
          /\ http.status = "500" <=> (http.signature.kind = "nonascii"
                                       /\ Truthy(WEBHOOK_SECRET))
          /\ http.constructions = 0 /\ http.passes = 0
    /\ AnsweredAfterPass

\* C11: with the webhook secret unset or empty, verify_signature returns
\* false for every signature and every body, and no request starts a pass:
\* no CalendarSync is constructed, no pass runs, none has ever ended.
C11_NoSecretNoPass ==
    ~Truthy(WEBHOOK_SECRET) =>
        /\ \A signature \in Signatures, body \in Bodies :
              verify_signature(WEBHOOK_SECRET, signature, body) = "False"
        /\ http.pc \in {"idle", "responded"}
        /\ http.constructions = 0 /\ http.passes = 0
        /\ \A p \in Procs : ~Active(p)
        /\ history = <<>>

\* Without a secret, a request signed with the empty key was answered.
C11_Witness ==
    /\ ~Truthy(WEBHOOK_SECRET)
    /\ http.pc = "responded"
    /\ http.signature = HexDigest("", http.body)

\* C12: a verified request is always answered by the handler itself: with
\* status "error" and HTTP 500 when CalendarSync(), sync_all_events() or
\* close() raised, and with status "success" only when the pass returned
\* (and nothing raised).
C12_ErrorsAnsweredAtBoundary ==
    (http.pc = "responded" /\ ValidSignature) =>
        /\ http.content \in {"success", "error"}
        /\ http.raised # {} => (http.status = "500" /\ http.content = "error")
        /\ http.content = "success" =>
              /\ http.status = "200"
              /\ http.raised = {}
              /\ http.passes = 1
              /\ history # <<>> /\ history[Len(history)].pc = "returned"

\* A pass that returned, answered 500 because close() raised.
C12_Witness ==
    /\ http.pc = "responded" /\ ValidSignature
    /\ http.raised = {"close"}
    /\ history # <<>> /\ history[Len(history)].pc = "returned"
    /\ history[Len(history)].created > 0

\* The lines of a summary that report the four counts.
FourCounts == {"Created", "Updated", "Deleted", "Errors"}

Printed(me) == {me.printed[i] : i \in 1..Len(me.printed)}

\* C13: every pass that was started and has ended has emitted a summary
\* that holds the four counts created, updated, deleted and errors.
C13_SummaryWithFourCounts ==
    /\ \A p \in Procs : Ended(sync[p]) => FourCounts \subseteq Printed(sync[p])
    /\ \A i \in 1..Len(history) : FourCounts \subseteq Printed(history[i])

\* What the code does emit: a pass that returned has printed the created,
\* updated and deleted counts, and the errors count exactly when it is
\* positive; a pass that an exception left has printed no summary.
C13_SummaryOfReturnedPass ==
    \A p \in Procs :
        /\ sync[p].pc = "returned" =>
              /\ {"Created", "Updated", "Deleted"} \subseteq Printed(sync[p])
              /\ "Errors" \in Printed(sync[p]) <=> sync[p].errors > 0
        /\ sync[p].pc # "returned" => sync[p].printed = <<>>

\* A text made of blanks only (the empty text included).
Blank(s) == \A i \in 1..Len(s) : s[i] = " "

\* The source value of an optional field is empty or absent.
NoDescription(event) == event.description = None \/ event.description = ""
NoRecurrence(event) == event.recurrence_type \in {NullText, <<>>}
NoAttendees(event) == event.attendees = NullText \/ Blank(event.attendees)

\* The update left the stored value of a field as it was.
Kept(field) ==
    /\ field \in DOMAIN mapper.after <=> field \in DOMAIN mapper.stored
    /\ field \in DOMAIN mapper.stored =>
          mapper.after[field] = mapper.stored[field]

NotCleared(field) == field \notin DOMAIN mapper.updated /\ Kept(field)

\* C14: after an update, for each of description, recurrence and attendees
\* whose source value is empty or absent (an attendee string made of blanks
\* included), the payload does not name the field and the page holds for it
\* what it held before.
C14_UpdateNeverClears ==
    mapper.pc = "updated" =>
        /\ NoDescription(mapper.event) => NotCleared("Description")
        /\ NoRecurrence(mapper.event) => NotCleared("Recurrence")
        /\ NoAttendees(mapper.event) => NotCleared("Attendees")

\* The same with the attendees left alone only when the attendee string is
\* NULL or empty.
C14_UpdateKeepsUnlessBlankAttendees ==
    mapper.pc = "updated" =>
        /\ NoDescription(mapper.event) => NotCleared("Description")
        /\ NoRecurrence(mapper.event) => NotCleared("Recurrence")
        /\ ~TruthyText(mapper.event.attendees) => NotCleared("Attendees")
        /\ (NoAttendees(mapper.event) /\ TruthyText(mapper.event.attendees)
            /\ mapper.store_ok)
              => mapper.after["Attendees"] = <<>>

\* The non-blank emails of an attendee list, trimmed, in its order.
NonBlankTrimmed(emails) ==
    LET kept == SelectSeq(emails, LAMBDA e : ~Blank(e))
    IN  [i \in 1..Len(kept) |-> strip(kept[i])]

AttendeesAsClaimed(properties, emails) ==
    /\ "Attendees" \in DOMAIN properties <=> NonBlankTrimmed(emails) # <<>>
    /\ "Attendees" \in DOMAIN properties =>
          properties["Attendees"] = NonBlankTrimmed(emails)

\* C15: the payload of create and of update holds the attendees field
\* exactly when the attendee list has a non-blank email; the field then
\* holds the non-blank emails, trimmed, in source order; and create and
\* update build the same payload for the same event.
C15_AttendeesIffNonBlank ==
    /\ mapper.pc \in {"created", "updated"} =>
          AttendeesAsClaimed(mapper.created, mapper.emails)
    /\ mapper.pc = "updated" =>
          /\ AttendeesAsClaimed(mapper.updated, mapper.emails)
          /\ mapper.updated = mapper.created

\* What the code builds: the field is there exactly when the attendee
\* string is not NULL or empty, holding the non-blank emails (possibly
\* none), and the two payloads are the same.
C15_AttendeesIffNonEmptyString ==
    /\ mapper.pc \in {"created", "updated"} =>
          /\ "Attendees" \in DOMAIN mapper.created <=> mapper.emails # <<>>
          /\ "Attendees" \in DOMAIN mapper.created =>
                mapper.created["Attendees"] = NonBlankTrimmed(mapper.emails)
    /\ mapper.pc = "updated" => mapper.updated = mapper.created

\* English name of a weekday code; any other code is itself.
EnglishName(code) ==
    CASE code = "MO" -> "Monday" [] code = "TU" -> "Tuesday"
      [] code = "WE" -> "Wednesday" [] code = "TH" -> "Thursday"
      [] code = "FR" -> "Friday" [] code = "SA" -> "Saturday"
      [] code = "SU" -> "Sunday" [] OTHER -> code

\* "d1", "d1 and d2", "d1, d2 and d3", ...
RECURSIVE AndList(_)
AndList(days) ==
    IF Len(days) = 1 THEN days[1]
    ELSE IF Len(days) = 2 THEN days[1] \o " and " \o days[2]
    ELSE days[1] \o ", " \o AndList(Tail(days))

LeadPhrase(unit, interval) ==
    IF interval = NullInt \/ interval = <<1>>
    THEN "Every " \o Str(lower(unit))
    ELSE "Every " \o ToString(interval[1]) \o " " \o Str(lower(unit)) \o "s"

\* C16: the recurrence text is nothing when the unit is absent; otherwise
\* the lead phrase "Every {unit}" (interval 1 or absent) or
\* "Every {interval} {unit}s", unit lower-cased, followed when weekday
\* codes are present by a space and "on" with the English names of the
\* trimmed codes (other codes as they are), comma-joined with "and" before
\* the last; month, 1, MO,WE gives "Every month on Monday and Wednesday".
C16_RecurrenceTextAsSpecified ==
    mapper.pc \in {"created", "updated"} =>
        LET event == mapper.event
            text == mapper.recurrence_text
            days == [i \in 1..Len(mapper.codes) |->
                        EnglishName(Str(strip(mapper.codes[i])))]
        IN  /\ NoRecurrence(event) => text = None
            /\ (~NoRecurrence(event) /\ days = <<>>) =>
                  text = LeadPhrase(event.recurrence_type, event.interval)
            /\ (~NoRecurrence(event) /\ days # <<>>) =>
                  text = LeadPhrase(event.recurrence_type, event.interval)
                             \o " on " \o AndList(days)
            /\ text = format_recurrence_text(event)
            /\ (/\ event.recurrence_type = <<"M", "O", "N", "T", "H">>
                /\ event.interval = <<1>>
                /\ mapper.codes = << <<"M", "O">>, <<"W", "E">> >>)
                  => text = "Every month on Monday and Wednesday"
            /\ (/\ event.recurrence_type = <<"W", "e", "e", "k">>
                /\ event.interval = <<2>>
                /\ mapper.codes = <<>>)
                  => text = "Every 2 weeks"

\* Interval 2, three codes: one to trim, one outside MO..SU.
C16_Witness ==
    /\ mapper.pc = "created"
    /\ mapper.recurrence_text = "Every 2 weeks on Monday, XX and Friday"

\* The passes, ended or under way.
Passes == {history[i] : i \in 1..Len(history)} \cup {sync[p] : p \in Procs}

\* Handles of the pages a correspondence fetch has seen.
Seen(me) ==
    {AllResults(me.queries)[i].id : i \in 1..Len(AllResults(me.queries))}

\* The create and update calls of a pass that succeeded.
Written(me) ==
    {me.calls[i] : i \in {j \in 1..Len(me.calls) :
                              /\ me.calls[j].op \in {"create", "update"}
                              /\ me.calls[j].result = "ok"}}

\* C17: the page a successful create produced, or a successful update
\* left, carries the event's identifier in its identifier property, and a
\* completed correspondence fetch of a later pass that sees the page maps
\* that identifier to that page's handle.
C17_JoinKeyRoundTrip ==
    \A me \in Passes : \A c \in Written(me) :
        /\ c.handle \in 1..Len(mirror)
        /\ mirror[c.handle].event_id_prop = IdProperty(c.event_id)
        /\ get_property_content(mirror[c.handle].event_id_prop) = c.event_id
        /\ \A later \in Passes :
              (later.run > me.run /\ Fetched(later) /\ c.handle \in Seen(later))
                  => /\ DictHas(later.fetched, c.event_id)
                     /\ DictGet(later.fetched, c.event_id) = c.handle

\* A pass created a page and updated another; the next pass fetched both.
C17_Witness ==
    \E me, later \in Passes :
        /\ later.run > me.run /\ Fetched(later)
        /\ \E c1, c2 \in Written(me) :
              /\ c1.op = "create" /\ c2.op = "update"
              /\ {c1.handle, c2.handle} \subseteq Seen(later)

\* C18: in main and in the webhook handler, every database connection an
\* invocation opened is closed exactly once by the time the invocation has
\* ended (and never more often than it was opened), however it ended.
C18_ConnectionsReleased ==
    \A p \in Procs :
        /\ conns[p].closed <= conns[p].opened
        /\ conns[p].state = "ended" => conns[p].closed = conns[p].opened

\* What the code does: the connection is closed once when the constructor
\* returned and close() did not raise; it stays open when the constructor
\* raised after connecting or cursor.close() raised.
C18_ReleasedWhenConstructedAndClosed ==
    \A p \in Procs :
        /\ conns[p].closed <= conns[p].opened
        /\ Active(p) => (conns[p].state = "running" /\ conns[p].opened = 1
                         /\ conns[p].closed = 0)
        /\ (conns[p].state = "ended" /\ conns[p].raised = {}) =>
              (conns[p].opened = 1 /\ conns[p].closed = 1)
        /\ (conns[p].state = "ended" /\ conns[p].raised # {}) =>
              conns[p].closed = 0

\* Pages that successful create calls have made for an identifier.
CreatedFor(id) ==
    UNION { {c.handle : c \in {w \in Written(me) :
                                   w.op = "create" /\ w.event_id = id}} :
            me \in Passes }

\* C19: also when passes overlap, no event identifier has more than one
\* page created for it, and no page is archived whose event is in the
\* source.
C19_OverlapSafe ==
    /\ \A id \in Ids : Cardinality(CreatedFor(id)) <= 1
    /\ \A h \in 1..Len(mirror) :
          mirror[h].archived =>
              \A r \in db_events :
                  r.event_id # get_property_content(mirror[h].event_id_prop)

====
